---- MODULE Spec2Model ----
(***************************************************************************)
(* Model of src/src/Minimax.h: the templated Minimax engine with           *)
(* alpha-beta pruning (class Minimax<GameState, Move, MaxMoves, MaxDepth>) *)
(* and the GameLogic capability it calls into.                             *)
(*                                                                         *)
(* The engine is single-threaded and findBestMove runs to completion, so   *)
(* one action is one whole findBestMove call.  The recursion of minimax is *)
(* a RECURSIVE operator that threads the node counter exactly as the code  *)
(* increments it and, beside it, keeps a ghost log of every invocation.    *)
(*                                                                         *)
(* The game (GameLogic) is the input: it is drawn in Init from a bounded   *)
(* family of games and never changes.  A Move is modelled by its 1-based   *)
(* index in the buffer generateMoves filled; Move is taken to be a class   *)
(* type whose default constructor yields DefaultMove.  The node counts of  *)
(* the bounded games stay far below the range of int, so _nodesSearched is *)
(* counted without wrap-around.                                            *)
(***************************************************************************)
EXTENDS Integers, Sequences, FiniteSets

\* ------------------------------------------------------------------ bounds
\* Template parameter MaxMoves of the modelled instantiation.
MaxMoves == 2
\* MaxDepth (template parameter) ranges up to MaxDepthBound.
MaxDepthBound == 3
\* Number of plies of the tree-shaped games.
TreeDepth == 3
\* evaluate reads a table of TableLen scores.
TableLen == 3
\* Number of positions of the cyclic game.
LoopLen == 3
\* Nesting of minimax invocations beyond which the call is taken not to
\* return (the recursion does not stop: stack exhaustion).
NestCap == 6

\* The two sentinels of the code.
NegInf == -32000
PosInf == 32000

\* Scores evaluate may return.
Scores == {NegInf, 0, 10, PosInf}
\* Values an int that was never initialised may hold.
Indeterminate == {NegInf, 0}
\* The value of `Move bestMove;`.
DefaultMove == 0

\* The games: "plain" is a tree played to its last ply, the players taking
\* turns; in "twice" a player moves twice running; "stuck" has a position
\* that is not terminal and has no move; "early" has a position that is
\* terminal before the last ply; "loop" is a cyclic game that never ends.
Kinds == {"plain", "twice", "stuck", "early", "loop"}
\* The position of kind "stuck" that is not terminal and has no move.
StuckState == 4
\* The position of kind "early" that is terminal before the last ply.
EarlyState == 2
\* A position of the tree games with a single legal move.
NarrowState == 6

VARIABLES
    game,            \* the GameLogic: [kind, table]
    MaxDepth,        \* template parameter MaxDepth
    _bestScore,      \* int _bestScore
    _nodesSearched,  \* int _nodesSearched
    pc,              \* "idle", or "diverged" when a call never returns
    last             \* ghost: what the most recent findBestMove call did

vars == <<game, MaxDepth, _bestScore, _nodesSearched, pc, last>>

\* Faulty variant of max: the running maximum is overwritten by the last score.
LastScore(a, b) == b

\* Arduino's max and min.
max(a, b) == IF a > b THEN a ELSE b
min(a, b) == IF a < b THEN a ELSE b

\* ---------------------------------------------------------------- the game
RECURSIVE Pow(_, _)
Pow(b, e) == IF e = 0 THEN 1 ELSE b * Pow(b, e - 1)

TreeSize == (Pow(MaxMoves, TreeDepth + 1) - 1) \div (MaxMoves - 1)

GameStates == IF game.kind = "loop" THEN 0 .. (LoopLen - 1) ELSE 0 .. (TreeSize - 1)

RECURSIVE Ply(_)
Ply(state) == IF state = 0 THEN 0 ELSE 1 + Ply((state - 1) \div MaxMoves)

evaluate(state) == game.table[state % TableLen]

generateMoves(state) ==
    CASE game.kind = "loop" -> MaxMoves
      [] Ply(state) >= TreeDepth -> 0
      [] game.kind = "stuck" /\ state = StuckState -> 0
      [] state = NarrowState -> 1
      [] OTHER -> MaxMoves

applyMove(state, move) ==
    IF game.kind = "loop" THEN (state + move) % LoopLen
    ELSE MaxMoves * state + move

isTerminal(state) ==
    CASE game.kind = "loop" -> FALSE
      [] Ply(state) >= TreeDepth -> TRUE
      [] game.kind = "early" /\ state = EarlyState -> TRUE
      [] OTHER -> FALSE

isMaximizingPlayer(state) ==
    CASE game.kind = "loop" -> state % 2 = 0
      [] game.kind = "twice" -> (Ply(state) \div 2) % 2 = 0
      [] OTHER -> Ply(state) % 2 = 0

\* --------------------------------------------------------------- minimax
\* One invocation of minimax, as the ghost log records it.
Visit(path, state, depth, maximizingPlayer, evaluated, ret) ==
    [path |-> path, state |-> state, depth |-> depth,
     maximizingPlayer |-> maximizingPlayer, evaluated |-> evaluated,
     ret |-> ret]

\* Result of a (partial) search: the value, the node counter afterwards, the
\* invocations made, and whether the recursion passed NestCap.
Res(ret, nodes, log, over) ==
    [ret |-> ret, nodes |-> nodes, log |-> log, over |-> over]

\* `_nodesSearched++`
CountNode(n) == n + 1

\* Faulty variant of BaseCase: the terminal test is left out.
BaseCaseDepthOnly(state, depth) == depth = 0

\* `depth == 0 || _logic.isTerminal(state)`
BaseCase(state, depth) == depth = 0 \/ isTerminal(state)

\* Faulty variant of ChildDepth: the depth is handed down without being decremented.
ChildDepthSame(depth) == depth

\* `depth - 1`
ChildDepth(depth) == depth - 1

\* Faulty variant of Cutoff: the comparison is reversed.
CutoffReversed(alpha, beta) == beta >= alpha

\* `beta <= alpha`
Cutoff(alpha, beta) == beta <= alpha

RECURSIVE minimax(_, _, _, _, _, _, _)
RECURSIVE MaxLoop(_, _, _, _, _, _, _, _, _, _)
RECURSIVE MinLoop(_, _, _, _, _, _, _, _, _, _)

MaxLoop(n, state, depth, alpha, beta, i, moveCount, maxEval, path, log) ==
    IF i > moveCount THEN Res(maxEval, n, log, FALSE)
    ELSE LET c == minimax(n, applyMove(state, i), ChildDepth(depth), alpha,
                          beta, FALSE, Append(path, i))
             newMax == max(maxEval, c.ret)
             newAlpha == max(alpha, c.ret)
         IN IF c.over THEN Res(maxEval, c.nodes, log \o c.log, TRUE)
            ELSE IF Cutoff(newAlpha, beta)
                 THEN Res(newMax, c.nodes, log \o c.log, FALSE)
                 ELSE MaxLoop(c.nodes, state, depth, newAlpha, beta, i + 1,
                              moveCount, newMax, path, log \o c.log)

MinLoop(n, state, depth, alpha, beta, i, moveCount, minEval, path, log) ==
    IF i > moveCount THEN Res(minEval, n, log, FALSE)
    ELSE LET c == minimax(n, applyMove(state, i), ChildDepth(depth), alpha,
                          beta, TRUE, Append(path, i))
             newMin == min(minEval, c.ret)
             newBeta == min(beta, c.ret)
         IN IF c.over THEN Res(minEval, c.nodes, log \o c.log, TRUE)
            ELSE IF Cutoff(alpha, newBeta)
                 THEN Res(newMin, c.nodes, log \o c.log, FALSE)
                 ELSE MinLoop(c.nodes, state, depth, alpha, newBeta, i + 1,
                              moveCount, newMin, path, log \o c.log)

minimax(n, state, depth, alpha, beta, maximizingPlayer, path) ==
    IF Len(path) > NestCap THEN Res(0, CountNode(n), <<>>, TRUE)
    ELSE IF BaseCase(state, depth)
    THEN Res(evaluate(state), CountNode(n),
             <<Visit(path, state, depth, maximizingPlayer, TRUE,
                     evaluate(state))>>, FALSE)
    ELSE LET moveCount == generateMoves(state)
             r == IF maximizingPlayer
                  THEN MaxLoop(CountNode(n), state, depth, alpha, beta, 1,
                               moveCount, NegInf, path, <<>>)
                  ELSE MinLoop(CountNode(n), state, depth, alpha, beta, 1,
                               moveCount, PosInf, path, <<>>)
         IN Res(r.ret, r.nodes,
                <<Visit(path, state, depth, maximizingPlayer, FALSE,
                        r.ret)>> \o r.log, r.over)

\* ----------------------------------------------------------- findBestMove
\* Faulty variant of InitialBestScore: the best score starts at 0.
InitialBestScoreZero(isMax) == 0

\* `_bestScore = isMax ? -32000 : 32000`
InitialBestScore(isMax) == IF isMax THEN NegInf ELSE PosInf

\* Faulty variant of Improves: a move of equal score replaces the best move.
ImprovesOrEqual(isMax, score, bestScore) ==
    IF isMax THEN score >= bestScore ELSE score =< bestScore

\* `score > _bestScore` for a maximizing root, `score < _bestScore` otherwise.
Improves(isMax, score, bestScore) ==
    IF isMax THEN score > bestScore ELSE score < bestScore

\* `MaxDepth - 1`: the depth argument of the search of a root move.
RootDepth == MaxDepth - 1

\* Faulty variant of OpponentOf: the root's own flag is handed down.
SameSide(isMax) == isMax

\* `!isMax`: the flag handed to the search of a root move.
OpponentOf(isMax) == ~isMax

\* The for loop of findBestMove from move i on.
RECURSIVE RootLoop(_, _, _, _, _, _, _, _, _)
RootLoop(state, isMax, i, moveCount, bestScore, bestMove, n, log, scores) ==
    IF i > moveCount
    THEN [bestScore |-> bestScore, bestMove |-> bestMove, nodes |-> n,
          log |-> log, scores |-> scores, over |-> FALSE]
    ELSE LET c == minimax(n, applyMove(state, i), RootDepth, NegInf, PosInf,
                          OpponentOf(isMax), <<i>>)
             better == Improves(isMax, c.ret, bestScore)
         IN IF c.over
            THEN [bestScore |-> bestScore, bestMove |-> bestMove,
                  nodes |-> c.nodes, log |-> log \o c.log, scores |-> scores,
                  over |-> TRUE]
            ELSE RootLoop(state, isMax, i + 1, moveCount,
                          IF better THEN c.ret ELSE bestScore,
                          IF better THEN i ELSE bestMove,
                          c.nodes, log \o c.log, Append(scores, c.ret))

NoCall ==
    [called |-> FALSE, state |-> 0, moveCount |-> 0, isMax |-> FALSE,
     move |-> DefaultMove, log |-> <<>>, scores |-> <<>>]

FindBestMove(state) ==
    /\ pc = "idle"
    /\ LET moveCount == generateMoves(state)
           isMax == isMaximizingPlayer(state)
           r == RootLoop(state, isMax, 1, moveCount, InitialBestScore(isMax),
                         DefaultMove, 0, <<>>, <<>>)
       IN IF moveCount = 0
          THEN /\ last' = [called |-> TRUE, state |-> state, moveCount |-> 0,
                           isMax |-> isMax, move |-> DefaultMove,
                           log |-> <<>>, scores |-> <<>>]
               /\ UNCHANGED <<_bestScore, _nodesSearched, pc>>
          ELSE /\ _bestScore' = r.bestScore
               /\ _nodesSearched' = r.nodes
               /\ pc' = IF r.over THEN "diverged" ELSE "idle"
               /\ last' = [called |-> TRUE, state |-> state,
                           moveCount |-> moveCount, isMax |-> isMax,
                           move |-> r.bestMove, log |-> r.log,
                           scores |-> r.scores]
    /\ UNCHANGED <<game, MaxDepth>>

\* The engine as constructed (_nodesSearched(0); _bestScore is not
\* initialised), for a game of the family and a MaxDepth among `depths`.
Constructed(depths) ==
    /\ game \in [kind : Kinds, table : [0 .. (TableLen - 1) -> Scores]]
    /\ MaxDepth \in depths
    /\ _bestScore \in Indeterminate
    /\ _nodesSearched = 0
    /\ pc = "idle"
    /\ last = NoCall

\* A search of at least one ply.
Init == Constructed(1 .. MaxDepthBound)

\* Every MaxDepth that is not negative.
InitAnyDepth == Constructed(0 .. MaxDepthBound)

\* The positions findBestMove is called on: the first position (the
\* maximizing player to act), the position after its first move (the
\* minimizing player to act) and the last position of the tree games.
RootStates == {0, 1, TreeSize - 1} \cap GameStates

Next == \E state \in RootStates : FindBestMove(state)

Spec == Init /\ [][Next]_vars

SpecAnyDepth == InitAnyDepth /\ [][Next]_vars

\* ------------------------------------------- exhaustive minimax (reference)
\* The same search with the cutoffs removed: every generated move of every
\* node is searched.  It is written apart from minimax: no window, no
\* counter, the base case and the depth step spelled out.  `paths` are the
\* invocations it makes, each named by the moves leading to it from the root.
SetMax(S) == CHOOSE x \in S : \A y \in S : x >= y
SetMin(S) == CHOOSE x \in S : \A y \in S : x =< y

RECURSIVE Exhaustive(_, _, _, _)
Exhaustive(state, depth, maximizing, path) ==
    IF Len(path) > NestCap THEN [ret |-> 0, paths |-> {}, over |-> TRUE]
    ELSE IF depth = 0 \/ isTerminal(state)
    THEN [ret |-> evaluate(state), paths |-> {path}, over |-> FALSE]
    ELSE LET kids == [i \in 1 .. generateMoves(state) |->
                         Exhaustive(applyMove(state, i), depth - 1,
                                    ~maximizing, Append(path, i))]
             rets == {kids[i].ret : i \in DOMAIN kids}
         IN [ret |-> IF maximizing THEN SetMax(rets \cup {NegInf})
                     ELSE SetMin(rets \cup {PosInf}),
             paths |-> {path} \cup UNION {kids[i].paths : i \in DOMAIN kids},
             over |-> \E i \in DOMAIN kids : kids[i].over]

\* The root of the reference: the moves in generation order, the first among
\* the moves of equal score kept, starting from the engine's initial score.
ExhaustiveBest(state) ==
    LET moveCount == generateMoves(state)
        isMax == isMaximizingPlayer(state)
        kids == [i \in 1 .. moveCount |->
                    Exhaustive(applyMove(state, i), MaxDepth - 1, ~isMax, <<i>>)]
        start == IF isMax THEN NegInf ELSE PosInf
        rets == {kids[i].ret : i \in DOMAIN kids} \cup {start}
        best == IF isMax THEN SetMax(rets) ELSE SetMin(rets)
        firsts == {i \in DOMAIN kids : kids[i].ret = best}
    IN [bestScore |-> best,
        bestMove |-> IF best = start \/ firsts = {} THEN DefaultMove
                     ELSE SetMin(firsts),
        paths |-> UNION {kids[i].paths : i \in DOMAIN kids},
        over |-> \E i \in DOMAIN kids : kids[i].over]

\* ------------------------------------------------------ shared vocabulary
\* The most recent findBestMove call returned.
Returned == pc = "idle" /\ last.called
\* ... and it had at least one root move to search.
Searched == Returned /\ last.moveCount > 0
\* The minimax invocations of the most recent call.
Visits == {last.log[k] : k \in 1 .. Len(last.log)}
VisitedPaths == {v.path : v \in Visits}
\* The capability contract: no move is generated only at terminal states.
ContractHolds == \A s \in GameStates : generateMoves(s) = 0 => isTerminal(s)
\* Every move hands the turn to the opponent.
Alternates ==
    \A s \in GameStates : \A i \in 1 .. generateMoves(s) :
        isMaximizingPlayer(applyMove(s, i)) # isMaximizingPlayer(s)
\* The best of the root scores of the most recent call.
BestOfScores ==
    LET S == {last.scores[k] : k \in 1 .. Len(last.scores)}
    IN IF last.isMax THEN SetMax(S) ELSE SetMin(S)
\* The first root move, in generation order, whose score is x.
FirstWithScore(x) ==
    SetMin({k \in 1 .. Len(last.scores) : last.scores[k] = x})

\* ------------------------------------------------------------------ claims

\* C1: alpha-beta equivalence.  In every game that keeps the contract (scores
\* within -32000..32000, no move only at terminal states), after a
\* findBestMove call on a state with at least one legal move, the move
\* returned and getBestScore equal the move and score of the exhaustive
\* search without pruning (same generation order, same tie-break).
C1_AlphaBetaEquivalence ==
    (Searched /\ ContractHolds) =>
        LET e == ExhaustiveBest(last.state)
        IN /\ ~e.over
           /\ last.move = e.bestMove
           /\ _bestScore = e.bestScore

\* C1 witness: a call in which pruning skipped nodes the exhaustive search
\* visits, and the two root moves score differently.
C1_Witness ==
    /\ Searched /\ ContractHolds
    /\ last.moveCount = 2
    /\ last.scores[1] # last.scores[2]
    /\ last.move = 2
    /\ _nodesSearched < Cardinality(ExhaustiveBest(last.state).paths)

\* C2: node accounting.  After any findBestMove call that returned,
\* getNodesSearched is the number of minimax invocations of that call alone,
\* a call on a state with no legal move included.
C2_NodeAccounting == Returned => _nodesSearched = Len(last.log)

\* C3: no legal move at the root.  findBestMove returns a default-constructed
\* Move and getBestScore is then -32000 for a maximizing root and +32000 for a
\* minimizing one, on a fresh engine and after earlier calls alike.
C3_NoMoveSentinel ==
    (Returned /\ last.moveCount = 0) =>
        /\ last.move = DefaultMove
        /\ _bestScore = (IF isMaximizingPlayer(last.state) THEN NegInf ELSE PosInf)

\* The root move returned is one generateMoves wrote, its score strictly
\* improved the initial best score, and getBestScore is its score.
RealMoveReturned ==
    /\ last.move \in 1 .. last.moveCount
    /\ IF last.isMax THEN last.scores[1] > NegInf ELSE last.scores[1] < PosInf
    /\ _bestScore = last.scores[last.move]

\* evaluate never returns one of the two sentinels.
ScoresStrictlyInside ==
    \A s \in GameStates : NegInf < evaluate(s) /\ evaluate(s) < PosInf

\* C4 as stated: with evaluate anywhere within -32000..32000, the first root
\* move strictly improves the initial best score and a generated move is
\* returned, never the placeholder.
C4_RealMoveImproves == Searched => RealMoveReturned

\* C4 amended: the same, for games whose evaluate stays strictly between the
\* sentinels and that generate no move only at terminal states.
C4_RealMoveImprovesInside ==
    (Searched /\ ScoresStrictlyInside /\ ContractHolds) => RealMoveReturned

\* C4 witness: a minimizing root with two moves, scores strictly inside, and
\* the second move returned.
C4_Witness ==
    /\ Searched /\ ScoresStrictlyInside /\ ContractHolds
    /\ ~last.isMax
    /\ last.move = 2
    /\ _bestScore = 0

\* C5 as stated: the move returned is the first, in generation order, of the
\* root moves whose score is the best root score.
C5_TieBreak == Searched => last.move = FirstWithScore(BestOfScores)

\* C5 amended: the same, whenever the best root score is not the initial
\* best score (the sentinel no score strictly improves).
C5_TieBreakImproved ==
    (Searched /\ BestOfScores # (IF last.isMax THEN NegInf ELSE PosInf)) =>
        last.move = FirstWithScore(BestOfScores)

\* C5 witness: two root moves of equal, improving score; the first is kept.
C5_Witness ==
    /\ Searched
    /\ last.moveCount = 2
    /\ last.scores[1] = last.scores[2]
    /\ last.scores[1] = 10
    /\ last.move = 1

\* Every invocation has its depth argument in 0..MaxDepth-1 and is nested at
\* most MaxDepth deep, and the call returned.
DepthBounded ==
    /\ pc = "idle"
    /\ \A v \in Visits : v.depth \in 0 .. (MaxDepth - 1) /\ Len(v.path) =< MaxDepth

\* C6 as stated: for every MaxDepth >= 0 a findBestMove call terminates and
\* the search stays within depths 0..MaxDepth-1, nested at most MaxDepth deep.
C6_BoundedRecursion == last.called => DepthBounded

\* C6 amended: the same for every MaxDepth >= 1.
C6_BoundedRecursionFromOne == (last.called /\ MaxDepth >= 1) => DepthBounded

\* C6 witness: in the game that is never terminal, a call returned after
\* stopping at depth 0, MaxDepth invocations deep.
C6_Witness ==
    /\ Returned /\ game.kind = "loop" /\ MaxDepth = MaxDepthBound
    /\ \E v \in Visits :
          v.depth = 0 /\ Len(v.path) = MaxDepth /\ ~isTerminal(v.state)

\* The win value: the highest score evaluate returns in the game.
WinValue == SetMax({evaluate(s) : s \in GameStates})

\* The root moves of the most recent call that lead directly to a terminal
\* state scored at the win value.
ImmediateWins ==
    {i \in 1 .. last.moveCount :
        /\ isTerminal(applyMove(last.state, i))
        /\ evaluate(applyMove(last.state, i)) = WinValue}

\* The depth bound reaches the last ply of the game from the root searched.
DepthCovers ==
    game.kind # "loop" /\ MaxDepth >= TreeDepth - Ply(last.state)

\* The case of C7: the maximizing player to act, an immediately winning root
\* move, the depth bound covering the rest of the game, in a game that keeps
\* the contract.
ImmediateWinCase ==
    /\ Searched /\ ContractHolds /\ DepthCovers
    /\ isMaximizingPlayer(last.state)
    /\ ImmediateWins # {}

\* C7 as stated: findBestMove returns an immediately winning move and
\* getBestScore is the win value, also when another root move forces a win
\* several plies later.
C7_ImmediateWinPlayed ==
    (ImmediateWinCase /\ WinValue > NegInf) =>
        (last.move \in ImmediateWins /\ _bestScore = WinValue)

\* C7 amended: getBestScore is the win value and the move returned is the
\* first root move, in generation order, whose searched score is the win
\* value (the immediately winning move only if no earlier root move reaches
\* the win value too); when the win value is the -32000 sentinel itself, no
\* score improves the initial best score and the default Move is returned.
C7_FirstWinningMovePlayed ==
    ImmediateWinCase =>
        /\ _bestScore = WinValue
        /\ last.move = (IF WinValue > NegInf THEN FirstWithScore(WinValue)
                        ELSE DefaultMove)

\* C7 witness: the second root move wins at once, the first forces a win
\* later, and the first is returned.
C7_Witness ==
    /\ ImmediateWinCase
    /\ ImmediateWins = {2}
    /\ WinValue = 10
    /\ last.move = 1
    /\ \E v \in Visits : Len(v.path) = 3

\* C8: pruning efficacy.  After every findBestMove call, getNodesSearched is
\* at most the number of invocations of the exhaustive search of the same
\* root, and every node the pruned search visited the exhaustive one visits.
C8_PruningEfficacy ==
    Returned =>
        LET e == ExhaustiveBest(last.state)
        IN /\ _nodesSearched =< Cardinality(e.paths)
           /\ VisitedPaths \subseteq e.paths

\* The invocations made directly by invocation p.
ChildrenOf(p) ==
    {c \in Visits : /\ Len(c.path) = Len(p.path) + 1
                    /\ SubSeq(c.path, 1, Len(p.path)) = p.path}

\* A non-terminal node above depth 0 for which no move is generated.
Degenerate(v) ==
    v.depth > 0 /\ ~isTerminal(v.state) /\ generateMoves(v.state) = 0

\* C9: evaluate is called exactly at the invocations with depth 0 or a
\* terminal state; a degenerate node returns -32000 when maximizing and
\* +32000 when minimizing without calling evaluate; and every node that is
\* not a leaf returns the max (min) of the scores of the children it searched,
\* a degenerate child's sentinel among them (for a root move: the score
\* findBestMove compares).
C9_DegenerateNode ==
    Returned =>
        /\ \A v \in Visits : v.evaluated <=> (v.depth = 0 \/ isTerminal(v.state))
        /\ \A v \in Visits : Degenerate(v) =>
              /\ ~v.evaluated
              /\ v.ret = (IF v.maximizingPlayer THEN NegInf ELSE PosInf)
        /\ \A p \in Visits : ~p.evaluated =>
              p.ret = (IF p.maximizingPlayer
                       THEN SetMax({c.ret : c \in ChildrenOf(p)} \cup {NegInf})
                       ELSE SetMin({c.ret : c \in ChildrenOf(p)} \cup {PosInf}))
        /\ \A v \in Visits : Len(v.path) = 1 => last.scores[v.path[1]] = v.ret

\* C9 witness: a degenerate maximizing node returned -32000 and its minimizing
\* parent, which had found a better score before, returned that sentinel.
C9_Witness ==
    /\ Returned
    /\ \E v \in Visits : \E p \in Visits :
          /\ Degenerate(v) /\ v.maximizingPlayer /\ v.ret = NegInf
          /\ v \in ChildrenOf(p)
          /\ p.ret = NegInf
          /\ \E c \in ChildrenOf(p) : c.ret > NegInf

\* Every invocation treats its node as maximizing exactly when
\* isMaximizingPlayer is true of the node's state.
RolesConsistent ==
    /\ last.isMax = isMaximizingPlayer(last.state)
    /\ \A v \in Visits : v.maximizingPlayer = isMaximizingPlayer(v.state)

\* C10 as stated: roles are consistent in every game, also where a move does
\* not hand the turn to the opponent.
C10_RoleConsistency == last.called => RolesConsistent

\* C10 amended: roles are consistent in every game in which each move hands
\* the turn to the opponent.
C10_RoleConsistencyAlternating == (last.called /\ Alternates) => RolesConsistent

\* C10 witness: a minimizing root in an alternating game, searched two
\* invocations deep.
C10_Witness ==
    /\ Searched /\ Alternates /\ ~last.isMax
    /\ \E v \in Visits : Len(v.path) = 2 /\ ~v.maximizingPlayer

====
